---- MODULE Spec2Model ----
(***************************************************************************)
(* Model of the degree ledger of src/text.py: the Blockchain class (chain, *)
(* pending buffer, verifier registry, hashing, verification, persistence   *)
(* to blockchain.json), the SQLite record cache and the upload and         *)
(* verification request handlers that drive them.                          *)
(*                                                                         *)
(* A Python str is a string; a value that may be None is a record         *)
(* [isNone, s].  The text of blockchain.json and the bytes fed to SHA-256  *)
(* are sequences of chunks (JSON tokens).                                  *)
(*                                                                         *)
(* chain, pending_degrees and alive are the Blockchain instance of one     *)
(* browser session; other_chain is the chain of the instance of a second   *)
(* session (<<>> while that session has not run the script); file and db   *)
(* are blockchain.json and degrees.db, which the sessions share.           *)
(***************************************************************************)
EXTENDS Integers, Sequences, FiniteSets, TLC

VARIABLES chain, pending_degrees, file, db, now, alive, faults, last,
          other_chain

vars == <<chain, pending_degrees, file, db, now, alive, faults, last,
          other_chain>>

-----------------------------------------------------------------------------
(* Bounds of the model.                                                    *)

\* largest number of blocks the in-memory chain may reach
MaxChain == 3
\* largest number of requests that read the clock
MaxNow == 4
\* largest number of storage faults (failed or interrupted writes)
MaxFaults == 1
\* largest number of records handed to add_degree and not sealed by an
\* upload request (in the blocks and in the pending buffer together)
MaxRecords == 3

-----------------------------------------------------------------------------
(* Values.                                                                 *)

None == [isNone |-> TRUE, s |-> ""]
Some(s) == [isNone |-> FALSE, s |-> s]

\* str(datetime.now()): the time read by the n-th request that reads the
\* clock, and the later time it gets when it reads the clock once more
ClockStr(n) == "t" \o ToString(n)
ClockStrLater(n) == ClockStr(n) \o "+"

\* the bytes of a sequence of chunks, every chunk delimited
RECURSIVE Join(_)
Join(b) ==
  IF b = <<>> THEN ""
  ELSE IF Len(b) = 1 THEN "<" \o b[1] \o ">"
  ELSE Join(SubSeq(b, 1, Len(b) \div 2))
       \o Join(SubSeq(b, Len(b) \div 2 + 1, Len(b)))

\* hashlib.sha256(b).hexdigest(): a collision-free function of the bytes
Sha256(b) == "sha256(" \o Join(b) \o ")"

verifiers ==
  { [code |-> "HEC", name |-> "Higher Education Commission"],
    [code |-> "IBCC", name |-> "Inter Board Committee of Chairmen"] }

VerifierCodes == { v.code : v \in verifiers }
VerifierName(c) == (CHOOSE v \in verifiers : v.code = c).name

\* a sentinel that is the empty string
Sentinel_blank == ""

\* previous_hash of the genesis block
Sentinel == "0"

-----------------------------------------------------------------------------
(* JSON encoding, as a sequence of tokens: punctuation, keys, numbers,     *)
(* null, and strings (an opening quote, the content, a closing quote).     *)
(* Whitespace is left out (json.load skips it).                            *)

Q == "\""
JKey(k) == "\"" \o k \o "\":"
JStr(s) == <<Q, s, Q>>
JOpt(o) == IF o.isNone THEN <<"null">> ELSE JStr(o.s)
JNum(n) == <<ToString(n)>>

\* json.dumps(degree, sort_keys=True): keys in sorted order
DumpsDegreeSorted(d) ==
  <<"{", JKey("degree_id")>> \o JStr(d.degree_id)
  \o <<",", JKey("degree_title")>> \o JStr(d.degree_title)
  \o <<",", JKey("document_hash")>> \o JStr(d.document_hash)
  \o <<",", JKey("institution")>> \o JStr(d.institution)
  \o <<",", JKey("issue_date")>> \o JStr(d.issue_date)
  \o <<",", JKey("status")>> \o JStr(d.status)
  \o <<",", JKey("student_name")>> \o JStr(d.student_name)
  \o <<",", JKey("verification_date")>> \o JOpt(d.verification_date)
  \o <<",", JKey("verified_by")>> \o JOpt(d.verified_by)
  \o <<"}">>

\* the elements of the degrees array, separated by commas
RECURSIVE DumpsDegreesSorted(_)
DumpsDegreesSorted(ds) ==
  IF ds = <<>> THEN <<>>
  ELSE IF Len(ds) = 1 THEN DumpsDegreeSorted(ds[1])
  ELSE DumpsDegreeSorted(ds[1]) \o <<",">> \o DumpsDegreesSorted(Tail(ds))

\* json.dumps(block, sort_keys=True)
DumpsBlockSorted(b) ==
  <<"{", JKey("degrees"), "[">> \o DumpsDegreesSorted(b.degrees) \o <<"]">>
  \o <<",", JKey("hash")>> \o JStr(b.hash)
  \o <<",", JKey("index")>> \o JNum(b.index)
  \o <<",", JKey("previous_hash")>> \o JStr(b.previous_hash)
  \o <<",", JKey("timestamp")>> \o JStr(b.timestamp)
  \o <<"}">>

calculate_hash(block) == Sha256(DumpsBlockSorted(block))

\* json.dump(degree): keys in insertion order (the order of the dict literal)
DumpDegree(d) ==
  <<"{", JKey("degree_id")>> \o JStr(d.degree_id)
  \o <<",", JKey("student_name")>> \o JStr(d.student_name)
  \o <<",", JKey("degree_title")>> \o JStr(d.degree_title)
  \o <<",", JKey("institution")>> \o JStr(d.institution)
  \o <<",", JKey("issue_date")>> \o JStr(d.issue_date)
  \o <<",", JKey("document_hash")>> \o JStr(d.document_hash)
  \o <<",", JKey("status")>> \o JStr(d.status)
  \o <<",", JKey("verified_by")>> \o JOpt(d.verified_by)
  \o <<",", JKey("verification_date")>> \o JOpt(d.verification_date)
  \o <<"}">>

RECURSIVE DumpDegrees(_)
DumpDegrees(ds) ==
  IF ds = <<>> THEN <<>>
  ELSE IF Len(ds) = 1 THEN DumpDegree(ds[1])
  ELSE DumpDegree(ds[1]) \o <<",">> \o DumpDegrees(Tail(ds))

DumpBlock(b) ==
  <<"{", JKey("index")>> \o JNum(b.index)
  \o <<",", JKey("timestamp")>> \o JStr(b.timestamp)
  \o <<",", JKey("degrees"), "[">> \o DumpDegrees(b.degrees) \o <<"]">>
  \o <<",", JKey("previous_hash")>> \o JStr(b.previous_hash)
  \o <<",", JKey("hash")>> \o JStr(b.hash)
  \o <<"}">>

RECURSIVE DumpBlocks(_)
DumpBlocks(bs) ==
  IF bs = <<>> THEN <<>>
  ELSE IF Len(bs) = 1 THEN DumpBlock(bs[1])
  ELSE DumpBlock(bs[1]) \o <<",">> \o DumpBlocks(Tail(bs))

\* a dump that writes the latest block alone
DumpChain_latest(ch) ==
  IF ch = <<>> THEN <<"[", "]">>
  ELSE <<"[">> \o DumpBlock(ch[Len(ch)]) \o <<"]">>

\* json.dump(self.chain, f, indent=4)
DumpChain(ch) == <<"[">> \o DumpBlocks(ch) \o <<"]">>

-----------------------------------------------------------------------------
(* JSON decoding.  Every parser takes the tokens t and a position p and    *)
(* returns [ok, v, next]: whether a value starts at p, the value, and the  *)
(* position after it.                                                      *)

At(t, p, c) == p >= 1 /\ p <= Len(t) /\ t[p] = c

ParseStr(t, p) ==
  IF At(t, p, Q) /\ At(t, p+2, Q)
  THEN [ok |-> TRUE, v |-> t[p+1], next |-> p+3]
  ELSE [ok |-> FALSE, v |-> "", next |-> p]

ParseOpt(t, p) ==
  IF At(t, p, "null") THEN [ok |-> TRUE, v |-> None, next |-> p+1]
  ELSE LET r == ParseStr(t, p)
       IN [ok |-> r.ok, v |-> Some(r.v), next |-> r.next]

ParseNum(t, p) ==
  IF p >= 1 /\ p <= Len(t) /\ \E n \in 0..(MaxChain + 2) : ToString(n) = t[p]
  THEN [ok |-> TRUE, v |-> CHOOSE n \in 0..(MaxChain + 2) : ToString(n) = t[p],
        next |-> p+1]
  ELSE [ok |-> FALSE, v |-> 0, next |-> p]

NoDegree ==
  [degree_id |-> "", student_name |-> "", degree_title |-> "",
   institution |-> "", issue_date |-> "", document_hash |-> "",
   status |-> "", verified_by |-> None, verification_date |-> None]

\* the seven string members of a record lie at fixed offsets from its "{"
ParseDegree(t, p) ==
  LET r8 == ParseOpt(t, p + 37)
      r9 == ParseOpt(t, r8.next + 2)
  IN IF /\ At(t, p, "{")
        /\ At(t, p+1, JKey("degree_id")) /\ ParseStr(t, p+2).ok
        /\ At(t, p+5, ",") /\ At(t, p+6, JKey("student_name")) /\ ParseStr(t, p+7).ok
        /\ At(t, p+10, ",") /\ At(t, p+11, JKey("degree_title")) /\ ParseStr(t, p+12).ok
        /\ At(t, p+15, ",") /\ At(t, p+16, JKey("institution")) /\ ParseStr(t, p+17).ok
        /\ At(t, p+20, ",") /\ At(t, p+21, JKey("issue_date")) /\ ParseStr(t, p+22).ok
        /\ At(t, p+25, ",") /\ At(t, p+26, JKey("document_hash")) /\ ParseStr(t, p+27).ok
        /\ At(t, p+30, ",") /\ At(t, p+31, JKey("status")) /\ ParseStr(t, p+32).ok
        /\ At(t, p+35, ",") /\ At(t, p+36, JKey("verified_by")) /\ r8.ok
        /\ At(t, r8.next, ",") /\ At(t, r8.next+1, JKey("verification_date")) /\ r9.ok
        /\ At(t, r9.next, "}")
     THEN [ok |-> TRUE, next |-> r9.next + 1,
           v |-> [degree_id |-> ParseStr(t, p+2).v,
                  student_name |-> ParseStr(t, p+7).v,
                  degree_title |-> ParseStr(t, p+12).v,
                  institution |-> ParseStr(t, p+17).v,
                  issue_date |-> ParseStr(t, p+22).v,
                  document_hash |-> ParseStr(t, p+27).v,
                  status |-> ParseStr(t, p+32).v,
                  verified_by |-> r8.v,
                  verification_date |-> r9.v]]
     ELSE [ok |-> FALSE, next |-> p, v |-> NoDegree]

\* the elements of the degrees array after its "[", up to its "]"
RECURSIVE ParseDegrees(_, _)
ParseDegrees(t, p) ==
  LET Fail == [ok |-> FALSE, v |-> <<>>, next |-> p]
      Cons(v, rest) ==
        [ok |-> rest.ok, v |-> <<v>> \o rest.v, next |-> rest.next]
      \* r is the result of parsing the first element
      After(r) ==
        IF ~r.ok THEN Fail
        ELSE IF At(t, r.next, "]")
             THEN [ok |-> TRUE, v |-> <<r.v>>, next |-> r.next + 1]
        ELSE IF At(t, r.next, ",") /\ ~At(t, r.next + 1, "]")
             THEN Cons(r.v, ParseDegrees(t, r.next + 1))
        ELSE Fail
  IN IF At(t, p, "]") THEN [ok |-> TRUE, v |-> <<>>, next |-> p+1]
     ELSE After(ParseDegree(t, p))

NoBlock ==
  [index |-> 0, timestamp |-> "", degrees |-> <<>>,
   previous_hash |-> "", hash |-> ""]

ParseBlock(t, p) ==
  LET \* r3 is the result of parsing the degrees array, q the position
      \* after it
      Members(r3, q) ==
        LET r1 == ParseNum(t, p+2)
            r2 == ParseStr(t, p+5)
            r4 == ParseStr(t, q+2)
            r5 == ParseStr(t, q+7)
        IN IF /\ At(t, p, "{") /\ At(t, p+1, JKey("index")) /\ r1.ok
              /\ At(t, p+3, ",") /\ At(t, p+4, JKey("timestamp")) /\ r2.ok
              /\ At(t, p+8, ",") /\ At(t, p+9, JKey("degrees"))
              /\ At(t, p+10, "[") /\ r3.ok
              /\ At(t, q, ",") /\ At(t, q+1, JKey("previous_hash")) /\ r4.ok
              /\ At(t, q+5, ",") /\ At(t, q+6, JKey("hash")) /\ r5.ok
              /\ At(t, q+10, "}")
           THEN [ok |-> TRUE, next |-> q + 11,
                 v |-> [index |-> r1.v, timestamp |-> r2.v, degrees |-> r3.v,
                        previous_hash |-> r4.v, hash |-> r5.v]]
           ELSE [ok |-> FALSE, next |-> p, v |-> NoBlock]
      Degrees(r3) == Members(r3, r3.next)
  IN Degrees(ParseDegrees(t, p+11))

\* the elements of the array of blocks after its "[", up to its "]"
RECURSIVE ParseBlocks(_, _)
ParseBlocks(t, p) ==
  LET Fail == [ok |-> FALSE, v |-> <<>>, next |-> p]
      Cons(v, rest) ==
        [ok |-> rest.ok, v |-> <<v>> \o rest.v, next |-> rest.next]
      \* r is the result of parsing the first element
      After(r) ==
        IF ~r.ok THEN Fail
        ELSE IF At(t, r.next, "]")
             THEN [ok |-> TRUE, v |-> <<r.v>>, next |-> r.next + 1]
        ELSE IF At(t, r.next, ",") /\ ~At(t, r.next + 1, "]")
             THEN Cons(r.v, ParseBlocks(t, r.next + 1))
        ELSE Fail
  IN IF At(t, p, "]") THEN [ok |-> TRUE, v |-> <<>>, next |-> p+1]
     ELSE After(ParseBlock(t, p))

\* json.load(f): the whole text must be one array of blocks
Loads(t) ==
  LET Whole(r) ==
        IF At(t, 1, "[") /\ r.ok /\ r.next = Len(t) + 1
        THEN [ok |-> TRUE, v |-> r.v]
        ELSE [ok |-> FALSE, v |-> <<>>]
  IN Whole(ParseBlocks(t, 2))

-----------------------------------------------------------------------------
(* The Blockchain class.                                                   *)

\* a create_block that hashes the block before the pending records are
\* put into it
create_block_early_hash(ch, pend, previous_hash, t) ==
  LET block == [index |-> Len(ch) + 1,
                timestamp |-> ClockStr(t),
                degrees |-> pend,
                previous_hash |-> previous_hash,
                hash |-> ""]
  IN Append(ch, [block EXCEPT
                   !.hash = calculate_hash([block EXCEPT !.degrees = <<>>])])

\* a create_block that puts the new block at the head of the chain
create_block_at_head(ch, pend, previous_hash, t) ==
  LET block == [index |-> Len(ch) + 1,
                timestamp |-> ClockStr(t),
                degrees |-> pend,
                previous_hash |-> previous_hash,
                hash |-> ""]
  IN <<[block EXCEPT !.hash = calculate_hash(block)]>> \o ch

\* create_block: the chain after the new block is appended (t is the
\* reading of the clock taken for the timestamp)
create_block(ch, pend, previous_hash, t) ==
  LET block == [index |-> Len(ch) + 1,
                timestamp |-> ClockStr(t),
                degrees |-> pend,
                previous_hash |-> previous_hash,
                hash |-> ""]
  IN Append(ch, [block EXCEPT !.hash = calculate_hash(block)])

\* an add_degree that puts the record at the head of the buffer
add_degree_at_head(pend, degree_data) == <<degree_data>> \o pend

add_degree(pend, degree_data) == Append(pend, degree_data)

\* a get_latest_block that returns chain[0]
get_latest_block_first(ch) == ch[1]

get_latest_block(ch) == ch[Len(ch)]

\* positions <<block, record>> of the records with the given id, and the
\* first of them in scan order
Matches(ch, degree_id) ==
  { pos \in (1..Len(ch)) \X (1..MaxChain) :
      /\ pos[2] <= Len(ch[pos[1]].degrees)
      /\ ch[pos[1]].degrees[pos[2]].degree_id = degree_id }

Before(p1, p2) == p1[1] < p2[1] \/ (p1[1] = p2[1] /\ p1[2] < p2[2])

FirstMatch(ch, degree_id) ==
  CHOOSE pos \in Matches(ch, degree_id) :
    \A other \in Matches(ch, degree_id) : other = pos \/ Before(pos, other)

\* a find_degree that returns the last matching record of the scan
find_degree_last_match(ch, degree_id) ==
  IF Matches(ch, degree_id) = {} THEN [found |-> FALSE, degree |-> NoDegree]
  ELSE LET pos == CHOOSE q \in Matches(ch, degree_id) :
                    \A other \in Matches(ch, degree_id) :
                      other = q \/ Before(other, q)
       IN [found |-> TRUE, degree |-> ch[pos[1]].degrees[pos[2]]]

find_degree(ch, degree_id) ==
  IF Matches(ch, degree_id) = {} THEN [found |-> FALSE, degree |-> NoDegree]
  ELSE LET pos == FirstMatch(ch, degree_id)
       IN [found |-> TRUE, degree |-> ch[pos[1]].degrees[pos[2]]]

\* a verify_degree that recomputes the hash of the block it changes
verify_degree_rehash(ch, degree_id, status, verifier, t) ==
  IF verifier \notin VerifierCodes
  THEN [ret |-> FALSE, chain |-> ch, log |-> "Invalid verifier"]
  ELSE IF Matches(ch, degree_id) = {}
  THEN [ret |-> FALSE, chain |-> ch, log |-> "not found in blockchain"]
  ELSE LET pos == FirstMatch(ch, degree_id)
           changed == [ch EXCEPT ![pos[1]].degrees[pos[2]] =
                        [@ EXCEPT !.status = status,
                                  !.verified_by = Some(VerifierName(verifier)),
                                  !.verification_date = Some(ClockStr(t))]]
       IN [ret |-> TRUE, log |-> "Verified degree",
           chain |-> [changed EXCEPT ![pos[1]].hash =
                        calculate_hash([changed[pos[1]] EXCEPT !.hash = ""])]]

\* a verify_degree that returns True when no record matches
verify_degree_true_on_miss(ch, degree_id, status, verifier, t) ==
  IF verifier \notin VerifierCodes
  THEN [ret |-> FALSE, chain |-> ch, log |-> "Invalid verifier"]
  ELSE IF Matches(ch, degree_id) = {}
  THEN [ret |-> TRUE, chain |-> ch, log |-> "not found in blockchain"]
  ELSE LET pos == FirstMatch(ch, degree_id)
       IN [ret |-> TRUE, log |-> "Verified degree",
           chain |-> [ch EXCEPT ![pos[1]].degrees[pos[2]] =
                        [@ EXCEPT !.status = status,
                                  !.verified_by = Some(VerifierName(verifier)),
                                  !.verification_date = Some(ClockStr(t))]]]

\* a verify_degree that checks the registry only after it has set the
\* status of the matching record
verify_degree_check_late(ch, degree_id, status, verifier, t) ==
  IF Matches(ch, degree_id) = {}
  THEN [ret |-> FALSE, chain |-> ch,
        log |-> IF verifier \in VerifierCodes THEN "not found in blockchain"
                ELSE "Invalid verifier"]
  ELSE LET pos == FirstMatch(ch, degree_id)
       IN IF verifier \notin VerifierCodes
          THEN [ret |-> FALSE, log |-> "Invalid verifier",
                chain |-> [ch EXCEPT ![pos[1]].degrees[pos[2]].status = status]]
          ELSE [ret |-> TRUE, log |-> "Verified degree",
                chain |-> [ch EXCEPT ![pos[1]].degrees[pos[2]] =
                        [@ EXCEPT !.status = status,
                                  !.verified_by = Some(VerifierName(verifier)),
                                  !.verification_date = Some(ClockStr(t))]]]

\* a verify_degree that refuses a record that has left Pending
verify_degree_locked(ch, degree_id, status, verifier, t) ==
  IF verifier \notin VerifierCodes
  THEN [ret |-> FALSE, chain |-> ch, log |-> "Invalid verifier"]
  ELSE IF Matches(ch, degree_id) = {}
  THEN [ret |-> FALSE, chain |-> ch, log |-> "not found in blockchain"]
  ELSE LET pos == FirstMatch(ch, degree_id)
       IN IF ch[pos[1]].degrees[pos[2]].status # "Pending"
          THEN [ret |-> FALSE, chain |-> ch, log |-> "already verified"]
          ELSE [ret |-> TRUE, log |-> "Verified degree",
                chain |-> [ch EXCEPT ![pos[1]].degrees[pos[2]] =
                        [@ EXCEPT !.status = status,
                                  !.verified_by = Some(VerifierName(verifier)),
                                  !.verification_date = Some(ClockStr(t))]]]

\* a verify_degree that goes on after the first match and sets every
\* record with the id
verify_degree_every_match(ch, degree_id, status, verifier, t) ==
  IF verifier \notin VerifierCodes
  THEN [ret |-> FALSE, chain |-> ch, log |-> "Invalid verifier"]
  ELSE IF Matches(ch, degree_id) = {}
  THEN [ret |-> FALSE, chain |-> ch, log |-> "not found in blockchain"]
  ELSE [ret |-> TRUE, log |-> "Verified degree",
        chain |-> [i \in 1..Len(ch) |->
                    [ch[i] EXCEPT !.degrees =
                       [j \in 1..Len(ch[i].degrees) |->
                          IF ch[i].degrees[j].degree_id = degree_id
                          THEN [ch[i].degrees[j] EXCEPT
                                  !.status = status,
                                  !.verified_by = Some(VerifierName(verifier)),
                                  !.verification_date = Some(ClockStr(t))]
                          ELSE ch[i].degrees[j]]]]]

\* verify_degree: the returned boolean, the chain afterwards and the message
\* logged (t is the clock reading for verification_date); save_blockchain is
\* called exactly when it returns True
verify_degree(ch, degree_id, status, verifier, t) ==
  IF verifier \notin VerifierCodes
  THEN [ret |-> FALSE, chain |-> ch, log |-> "Invalid verifier"]
  ELSE IF Matches(ch, degree_id) = {}
  THEN [ret |-> FALSE, chain |-> ch, log |-> "not found in blockchain"]
  ELSE LET pos == FirstMatch(ch, degree_id)
       IN [ret |-> TRUE, log |-> "Verified degree",
           chain |-> [ch EXCEPT ![pos[1]].degrees[pos[2]] =
                        [@ EXCEPT !.status = status,
                                  !.verified_by = Some(VerifierName(verifier)),
                                  !.verification_date = Some(ClockStr(t))]]]

\* What a call of save_blockchain can do to blockchain.json: write it all;
\* fail in open() (file untouched); fail or die inside json.dump after
\* open(..., 'w') has truncated the file (a strict prefix is left behind).
Outcomes ==
  {[kind |-> "ok", cut |-> "empty"], [kind |-> "open_fail", cut |-> "empty"]}
  \cup {[kind |-> k, cut |-> c] : k \in {"write_fail", "crash"}, c \in {"empty", "most"}}

\* how much of a text of n chunks an interrupted write leaves: nothing (the
\* file was truncated and the buffer never flushed) or all but the end
CutAt(n, c) == IF c = "empty" THEN 0 ELSE n - 1

Absent == [exists |-> FALSE, data |-> <<>>]

\* a save_blockchain that opens the file for appending
save_blockchain_append(f, ch, o) ==
  LET text == DumpChain(ch)
  IN IF o.kind = "ok" THEN [exists |-> TRUE, data |-> f.data \o text]
     ELSE IF o.kind = "open_fail" THEN f
     ELSE [exists |-> TRUE,
           data |-> f.data \o SubSeq(text, 1, CutAt(Len(text), o.cut))]

save_blockchain(f, ch, o) ==
  LET text == DumpChain(ch)
  IN IF o.kind = "ok" THEN [exists |-> TRUE, data |-> text]
     ELSE IF o.kind = "open_fail" THEN f
     ELSE [exists |-> TRUE, data |-> SubSeq(text, 1, CutAt(Len(text), o.cut))]

\* a load_blockchain that leaves a chain of one blank block behind when the
\* file does not parse
load_blockchain_blank_on_error(f) ==
  LET Loaded(r) == IF r.ok THEN r.v ELSE <<NoBlock>>
  IN IF f.exists THEN Loaded(Loads(f.data)) ELSE <<>>

\* load_blockchain: the chain after loading into an instance whose chain
\* is still []
load_blockchain(f) ==
  LET Loaded(r) == IF r.ok THEN r.v ELSE <<>>
  IN IF f.exists THEN Loaded(Loads(f.data)) ELSE <<>>

Faulty(o) == o.kind # "ok"
Survives(o) == o.kind # "crash"
MayFail(o) == Faulty(o) => faults < MaxFaults

-----------------------------------------------------------------------------
(* The SQLite cache (degrees.db): a set of rows, degree_id the primary key *)

save_degree_to_db(rows, degree_data) ==
  {r \in rows : r.degree_id # degree_data.degree_id} \cup {degree_data}

update_degree_status_in_db(rows, degree_id, status, verified_by, verification_date) ==
  { IF r.degree_id = degree_id
    THEN [r EXCEPT !.status = status,
                   !.verified_by = Some(verified_by),
                   !.verification_date = Some(verification_date)]
    ELSE r : r \in rows }

-----------------------------------------------------------------------------
(* Inputs of the request handlers.                                         *)

Submissions ==
  [student_name : {"", "Alice", "Bob"},
   degree_title : {"", "BSc CS"},
   institution : {"", "X U"},
   issue_date : {"2024-01-01"},
   file_bytes : {"pdf-bytes"}]

\* a test of the upload form that leaves student_name out
Valid_name_unchecked(sub) ==
  sub.degree_title # "" /\ sub.institution # ""

\* the test of the upload form; issue_date (a date picked in the form) and
\* the uploaded file are present in every submission
Valid(sub) ==
  sub.student_name # "" /\ sub.degree_title # "" /\ sub.institution # ""

DegreeId(sub) ==
  Sha256(<<sub.student_name \o sub.degree_title \o sub.institution
           \o sub.issue_date \o Sha256(<<sub.file_bytes>>)>>)

DegreeData(sub) ==
  [degree_id |-> DegreeId(sub),
   student_name |-> sub.student_name,
   degree_title |-> sub.degree_title,
   institution |-> sub.institution,
   issue_date |-> sub.issue_date,
   document_hash |-> Sha256(<<sub.file_bytes>>),
   status |-> "Pending",
   verified_by |-> None,
   verification_date |-> None]

UnknownId == "no-such-id"
RequestIds == {DegreeId(sub) : sub \in {s \in Submissions : Valid(s)}} \cup {UnknownId}

\* verification requests: both decisions, both registered codes, and a
\* code that is not registered
VerifyRequests ==
  { [action |-> "Approve", verifier |-> "HEC"],
    [action |-> "Reject", verifier |-> "IBCC"],
    [action |-> "Approve", verifier |-> "XYZ"] }

\* a handler that hands the action itself to verify_degree as the status
StatusOf_action(action) == action

StatusOf(action) == IF action = "Approve" THEN "Approved" ELSE "Rejected"

\* the most recent request: its kind, whether it completed with success,
\* the record it is about (upload: the record submitted; find: the record
\* returned; a successful verify: the matching record as it was before the
\* call) and why verify_degree refused, as it logs it
Call(op, ret, rec, log) == [op |-> op, ret |-> ret, rec |-> rec, log |-> log]

-----------------------------------------------------------------------------
(* The state machine.                                                      *)

\* before the first launch: no blockchain.json, no rows, no process
Init ==
  /\ chain = <<>>
  /\ pending_degrees = <<>>
  /\ file = Absent
  /\ db = {}
  /\ now = 0
  /\ alive = FALSE
  /\ faults = 0
  /\ last = Call("none", FALSE, NoDegree, "")
  /\ other_chain = <<>>

\* the process dies inside save_blockchain: its memory is gone
Crash ==
  /\ chain' = <<>>
  /\ pending_degrees' = <<>>
  /\ alive' = FALSE
  /\ last' = Call("crash", FALSE, NoDegree, "")

\* blockchain = Blockchain(): a (re)start of the script or of the process
Start ==
  /\ UNCHANGED other_chain
  /\ LET loaded == load_blockchain(file)
     IN IF loaded # <<>>
        THEN /\ chain' = loaded
             /\ pending_degrees' = <<>>
             /\ alive' = TRUE
             /\ last' = Call("start", TRUE, NoDegree, "")
             /\ UNCHANGED <<file, db, now, faults>>
        ELSE /\ now < MaxNow
             /\ LET genesis == create_block(<<>>, <<>>, Sentinel, now + 1)
                IN \E o \in Outcomes :
                     /\ MayFail(o)
                     /\ now' = now + 1
                     /\ file' = save_blockchain(file, genesis, o)
                     /\ faults' = IF Faulty(o) THEN faults + 1 ELSE faults
                     /\ db' = db
                     /\ IF Survives(o)
                        THEN /\ chain' = genesis
                             /\ pending_degrees' = <<>>
                             /\ alive' = TRUE
                             /\ last' = Call("start", TRUE, NoDegree, "")
                        ELSE Crash

\* the upload request: validation, add_degree, create_block with the hash
\* of the latest block, save_degree_to_db
Upload(sub) ==
  /\ alive
  /\ UNCHANGED other_chain
  /\ IF ~Valid(sub)
     THEN /\ last' = Call("upload", FALSE, NoDegree, "")
          /\ UNCHANGED <<chain, pending_degrees, file, db, now, alive, faults>>
     ELSE /\ Len(chain) < MaxChain
          /\ now < MaxNow
          /\ LET degree_data == DegreeData(sub)
                 pend == add_degree(pending_degrees, degree_data)
                 sealed == create_block(chain, pend,
                                        get_latest_block(chain).hash, now + 1)
             IN \E o \in Outcomes :
                  /\ MayFail(o)
                  /\ now' = now + 1
                  /\ file' = save_blockchain(file, sealed, o)
                  /\ faults' = IF Faulty(o) THEN faults + 1 ELSE faults
                  /\ IF Survives(o)
                     THEN /\ chain' = sealed
                          /\ pending_degrees' = <<>>
                          /\ db' = save_degree_to_db(db, degree_data)
                          /\ last' = Call("upload", TRUE, degree_data, "")
                          /\ UNCHANGED alive
                     ELSE Crash /\ UNCHANGED db

\* the verification request: verify_degree, then update_degree_status_in_db
Verify(degree_id, action, verifier) ==
  /\ alive
  /\ UNCHANGED other_chain
  /\ LET status == StatusOf(action)
         r == verify_degree(chain, degree_id, status, verifier, now + 1)
         before == find_degree(chain, degree_id).degree
     IN IF ~r.ret
        THEN /\ chain' = r.chain
             /\ last' = Call("verify", FALSE, NoDegree, r.log)
             /\ UNCHANGED <<pending_degrees, file, db, now, alive, faults>>
        ELSE /\ now < MaxNow
             /\ \E o \in Outcomes :
                  /\ MayFail(o)
                  /\ file' = save_blockchain(file, r.chain, o)
                  /\ faults' = IF Faulty(o) THEN faults + 1 ELSE faults
                  /\ now' = now + 1
                  /\ IF Survives(o)
                     THEN /\ chain' = r.chain
                          /\ db' = update_degree_status_in_db(db, degree_id, status,
                                     VerifierName(verifier), ClockStrLater(now + 1))
                          /\ last' = Call("verify", TRUE, before, r.log)
                          /\ UNCHANGED <<pending_degrees, alive>>
                     ELSE Crash /\ UNCHANGED db

\* a call of find_degree
FindDegree(degree_id) ==
  /\ alive
  /\ LET r == find_degree(chain, degree_id)
     IN last' = Call("find", r.found, r.degree, "")
  /\ UNCHANGED <<chain, pending_degrees, file, db, now, alive, faults,
                 other_chain>>

\* the records of the blocks of a chain, in scan order
RECURSIVE Records(_)
Records(ch) ==
  IF ch = <<>> THEN <<>> ELSE ch[1].degrees \o Records(Tail(ch))

\* a call of add_degree on the instance
AddDegree(sub) ==
  /\ alive
  /\ Len(Records(chain)) + Len(pending_degrees) < MaxRecords
  /\ pending_degrees' = add_degree(pending_degrees, DegreeData(sub))
  /\ last' = Call("add_degree", TRUE, DegreeData(sub), "")
  /\ UNCHANGED <<chain, file, db, now, alive, faults, other_chain>>

\* a call of create_block with the hash of the latest block, its persist
\* succeeding
Seal ==
  /\ alive
  /\ Len(chain) < MaxChain
  /\ now < MaxNow
  /\ chain' = create_block(chain, pending_degrees,
                           get_latest_block(chain).hash, now + 1)
  /\ pending_degrees' = <<>>
  /\ file' = save_blockchain(file, chain', [kind |-> "ok", cut |-> "empty"])
  /\ now' = now + 1
  /\ last' = Call("create_block", TRUE, NoDegree, "")
  /\ UNCHANGED <<db, alive, faults, other_chain>>

Next ==
  \/ Start
  \/ \E sub \in Submissions : Upload(sub)
  \/ \E id \in RequestIds, req \in VerifyRequests :
        Verify(id, req.action, req.verifier)
  \/ \E id \in RequestIds : FindDegree(id)

Spec == Init /\ [][Next]_vars

\* blockchain = Blockchain() in the script run of the second session
OtherStart ==
  /\ LET loaded == load_blockchain(file)
     IN IF loaded # <<>>
        THEN /\ other_chain' = loaded
             /\ UNCHANGED <<file, now>>
        ELSE /\ now < MaxNow
             /\ other_chain' = create_block(<<>>, <<>>, Sentinel, now + 1)
             /\ file' = save_blockchain(file, other_chain',
                                        [kind |-> "ok", cut |-> "empty"])
             /\ now' = now + 1
  /\ last' = Call("other_start", TRUE, NoDegree, "")
  /\ UNCHANGED <<chain, pending_degrees, db, alive, faults>>

\* the upload request in the second session
OtherUpload(sub) ==
  /\ other_chain # <<>>
  /\ Valid(sub)
  /\ Len(other_chain) < MaxChain
  /\ now < MaxNow
  /\ other_chain' = create_block(other_chain,
                                 add_degree(<<>>, DegreeData(sub)),
                                 get_latest_block(other_chain).hash, now + 1)
  /\ file' = save_blockchain(file, other_chain',
                             [kind |-> "ok", cut |-> "empty"])
  /\ db' = save_degree_to_db(db, DegreeData(sub))
  /\ now' = now + 1
  /\ last' = Call("other_upload", TRUE, DegreeData(sub), "")
  /\ UNCHANGED <<chain, pending_degrees, alive, faults>>

\* the verification request in the second session
OtherVerify(degree_id, action, verifier) ==
  /\ other_chain # <<>>
  /\ LET status == StatusOf(action)
         r == verify_degree(other_chain, degree_id, status, verifier, now + 1)
     IN IF ~r.ret
        THEN /\ last' = Call("other_verify", FALSE, NoDegree, r.log)
             /\ UNCHANGED <<other_chain, file, db, now>>
        ELSE /\ now < MaxNow
             /\ other_chain' = r.chain
             /\ file' = save_blockchain(file, r.chain,
                                        [kind |-> "ok", cut |-> "empty"])
             /\ db' = update_degree_status_in_db(db, degree_id, status,
                        VerifierName(verifier), ClockStrLater(now + 1))
             /\ now' = now + 1
             /\ last' = Call("other_verify", TRUE, NoDegree, r.log)
  /\ UNCHANGED <<chain, pending_degrees, alive, faults>>

\* The methods of one Blockchain instance called one by one, on a storage
\* that never fails (the budget of faults is spent from the start).
InitReliable ==
  /\ chain = <<>>
  /\ pending_degrees = <<>>
  /\ file = Absent
  /\ db = {}
  /\ now = 0
  /\ alive = FALSE
  /\ faults = MaxFaults
  /\ last = Call("none", FALSE, NoDegree, "")
  /\ other_chain = <<>>

NextApi ==
  \/ Start
  \/ \E sub \in {x \in Submissions : Valid(x)} : AddDegree(sub)
  \/ Seal
  \/ \E id \in RequestIds : Verify(id, "Approve", "HEC")
  \/ \E id \in RequestIds : FindDegree(id)

SpecApi == InitReliable /\ [][NextApi]_vars

\* Two sessions, each with its own instance, take turns request by request
\* on a storage that never fails.
NextSessions ==
  \/ Start
  \/ \E sub \in Submissions : Upload(sub)
  \/ \E id \in RequestIds, req \in VerifyRequests :
        Verify(id, req.action, req.verifier)
  \/ OtherStart
  \/ \E sub \in Submissions : OtherUpload(sub)
  \/ \E id \in RequestIds, req \in VerifyRequests :
        OtherVerify(id, req.action, req.verifier)

SpecSessions == InitReliable /\ [][NextSessions]_vars

-----------------------------------------------------------------------------
(* Properties.                                                             *)

\* the hash of a block recomputed from its current contents, the way
\* create_block computed it: the hash field blank
Recompute(b) == Sha256(DumpsBlockSorted([b EXCEPT !.hash = ""]))

Unverified(d) ==
  d.status = "Pending" /\ d.verified_by = None /\ d.verification_date = None

AllUnverified(b) == \A i \in 1..Len(b.degrees) : Unverified(b.degrees[i])

SomeVerified(ch) == \E i \in 1..Len(ch) : ~AllUnverified(ch[i])

\* a record and a block without the three fields that verify_degree sets
Core(d) ==
  [degree_id |-> d.degree_id, student_name |-> d.student_name,
   degree_title |-> d.degree_title, institution |-> d.institution,
   issue_date |-> d.issue_date, document_hash |-> d.document_hash]

CoreBlock(b) ==
  [b EXCEPT !.degrees = [i \in 1..Len(b.degrees) |-> Core(b.degrees[i])]]

\* ch2 holds the blocks of ch1, in the same places, and maybe more after them
Extends(ch1, ch2) ==
  /\ Len(ch1) <= Len(ch2)
  /\ \A i \in 1..Len(ch1) : CoreBlock(ch2[i]) = CoreBlock(ch1[i])

\* C1: every block after the first has previous_hash equal to the stored
\* hash of the block immediately before it, in every reachable state.
C1_ChainLinked ==
  \A i \in 2..Len(chain) : chain[i].previous_hash = chain[i-1].hash

\* C1 witness: a restart has reloaded a chain of three blocks one of whose
\* records has been verified.
C1_Witness ==
  /\ alive /\ last.op = "start" /\ Len(chain) >= 3
  /\ SomeVerified(chain)
  /\ chain[3].previous_hash = chain[2].hash

\* C2: a successful verify leaves the stored hash of the block that holds
\* the mutated record as it was, and the hash recomputed from the block's
\* current contents differs from that stored hash.
C2_StaleHash ==
  [][(last'.op = "verify" /\ last'.ret) =>
       LET b == FirstMatch(chain, last'.rec.degree_id)[1]
       IN /\ chain'[b].degrees # chain[b].degrees
          /\ chain'[b].hash = chain[b].hash
          /\ Recompute(chain'[b]) # chain'[b].hash]_vars

\* C2 witness: a verify has succeeded on a record of the chain.
C2_Witness ==
  /\ alive /\ last.op = "verify" /\ last.ret
  /\ Matches(chain, last.rec.degree_id) # {}
  /\ ~Unverified(find_degree(chain, last.rec.degree_id).degree)

\* C3: the stored hash of every block none of whose records has been
\* verified equals the digest of the key-sorted encoding of the block with
\* the hash field blank, in memory and in the chain a load of the durable
\* file yields.
C3_HashReproducible ==
  /\ \A i \in 1..Len(chain) :
       AllUnverified(chain[i]) => chain[i].hash = Recompute(chain[i])
  /\ LET loaded == load_blockchain(file)
     IN \A i \in 1..Len(loaded) :
          AllUnverified(loaded[i]) => loaded[i].hash = Recompute(loaded[i])

\* C3 witness: a restart has loaded a chain that holds a verified record in
\* one block and an unverified record in a later block.
C3_Witness ==
  /\ alive /\ last.op = "start" /\ Len(chain) >= 3
  /\ ~AllUnverified(chain[2])
  /\ chain[3].degrees # <<>> /\ AllUnverified(chain[3])
  /\ chain[3].hash = Recompute(chain[3])

\* C4: at most one record of the chain carries any given id.
C4_UniqueIds ==
  \A id \in RequestIds : Cardinality(Matches(chain, id)) <= 1

\* C5: a crash during persist leaves the durable file loading to the chain
\* it loaded to before, and never unparsable.
C5_CrashSafe ==
  [][last'.op = "crash" =>
       /\ load_blockchain(file') = load_blockchain(file)
       /\ file'.exists => Loads(file'.data).ok]_vars

\* C6: verify with an id that matches no record returns failure and leaves
\* the chain, the pending buffer and the durable file unchanged.
C6_VerifyUnknownId ==
  [][\A id \in RequestIds, req \in VerifyRequests :
       (/\ last'.op = "verify"
        /\ Matches(chain, id) = {}
        /\ Verify(id, req.action, req.verifier)) =>
         /\ ~last'.ret
         /\ chain' = chain
         /\ pending_degrees' = pending_degrees
         /\ file' = file]_vars

\* C6 witness: verify_degree has reported an id not found in a chain that
\* holds records.
C6_Witness ==
  /\ alive /\ last.op = "verify" /\ ~last.ret
  /\ last.log = "not found in blockchain"
  /\ Matches(chain, UnknownId) = {}
  /\ \E id \in RequestIds : Matches(chain, id) # {}

\* C7: verify with an authority code that is not registered returns failure
\* for every id and changes no record, nor the durable file.
C7_VerifyUnknownVerifier ==
  [][\A id \in RequestIds, req \in VerifyRequests :
       (/\ last'.op = "verify"
        /\ req.verifier \notin VerifierCodes
        /\ Verify(id, req.action, req.verifier)) =>
         /\ ~last'.ret
         /\ chain' = chain
         /\ file' = file]_vars

\* C7 witness: verify_degree has refused an unregistered code on a chain
\* that holds records of both ids.
C7_Witness ==
  /\ alive /\ last.op = "verify" /\ ~last.ret
  /\ last.log = "Invalid verifier"
  /\ \A id \in RequestIds \ {UnknownId} : Matches(chain, id) # {}

\* C8: a verify by a registered authority on a record that is already
\* Approved or Rejected succeeds and overwrites status, verified_by and
\* verification_date, so that find_degree returns the values of this verify.
C8_NoVerifiedLock ==
  [][\A id \in RequestIds, req \in VerifyRequests :
       (/\ last'.op = "verify"
        /\ req.verifier \in VerifierCodes
        /\ find_degree(chain, id).degree.status \in {"Approved", "Rejected"}
        /\ Verify(id, req.action, req.verifier)) =>
         LET old == find_degree(chain, id).degree
             new == find_degree(chain', id).degree
         IN /\ last'.ret
            /\ new.status = StatusOf(req.action)
            /\ new.verified_by = Some(VerifierName(req.verifier))
            /\ ~new.verification_date.isNone
            /\ new.verification_date # old.verification_date]_vars

\* C8 witness: a record approved by HEC has then been rejected by IBCC.
C8_Witness ==
  /\ alive /\ last.op = "verify" /\ last.ret
  /\ last.rec.status = "Approved"
  /\ last.rec.verified_by = Some(VerifierName("HEC"))
  /\ LET d == find_degree(chain, last.rec.degree_id).degree
     IN /\ d.status = "Rejected"
        /\ d.verified_by = Some(VerifierName("IBCC"))
        /\ d.verification_date # last.rec.verification_date

\* C9: every step whose persist does not fail and that changes the
\* in-memory chain or the durable file (a seal, a successful verify, a
\* start) leaves the file equal to the in-memory chain; the steps that are
\* left change neither, so the two never come to differ without a failed
\* persist.
C9_DurableConsistent ==
  [][(/\ alive' /\ faults' = faults
      /\ chain' # chain \/ file' # file) =>
       /\ file'.exists
       /\ load_blockchain(file') = chain']_vars

\* C9 witness: after an earlier failed persist, a successful verify has
\* written the chain and the file equals it.
C9_Witness ==
  /\ alive /\ faults > 0 /\ last.op = "verify" /\ last.ret
  /\ Len(chain) >= 2
  /\ load_blockchain(file) = chain

\* C10: persist followed by load yields a chain equal to the original in
\* every block and record field.
C10_ReloadRoundTrip ==
  Loads(DumpChain(chain)) = [ok |-> TRUE, v |-> chain]

\* C10 witness: a chain of three blocks with a verified record and a record
\* whose verified_by and verification_date are null.
C10_Witness ==
  /\ Len(chain) >= 3
  /\ \E i \in 2..3 : ~AllUnverified(chain[i])
  /\ \E i \in 2..3 : chain[i].degrees # <<>> /\ AllUnverified(chain[i])
  /\ Loads(DumpChain(chain)).v = chain

\* C11: a seal or a verify whose persist fails without ending the process
\* still reports success and keeps the in-memory mutation (the block
\* appended and the pending buffer cleared, or the record changed), and the
\* durable file keeps the content it had; a later persist that succeeds
\* writes the whole in-memory chain.
C11_PersistFailureKept ==
  [][/\ (alive' /\ faults' # faults /\ last'.op \in {"upload", "verify"}) =>
          /\ last'.ret
          /\ chain' # chain
          /\ last'.op = "upload" =>
               /\ Len(chain') = Len(chain) + 1
               /\ pending_degrees' = <<>>
          /\ file' = file
     /\ (alive' /\ faults' = faults /\ file' # file) =>
          load_blockchain(file') = chain']_vars

\* C12: an initialization that finds a durable file that does not parse
\* raises nothing and ends with a chain of exactly one block (index 1,
\* sentinel previous_hash, no records); the persist of that block, when it
\* does not fail, replaces the file by this one-block chain.
C12_FailOpenLoad ==
  [][(/\ last'.op = "start" /\ alive'
      /\ file.exists /\ ~Loads(file.data).ok
      /\ Start) =>
       /\ last'.ret
       /\ Len(chain') = 1
       /\ chain'[1].index = 1
       /\ chain'[1].previous_hash = Sentinel
       /\ chain'[1].degrees = <<>>
       /\ faults' = faults =>
            /\ file'.exists
            /\ load_blockchain(file') = chain']_vars

\* C12 witness: after an upload was recorded, a start has made a genesis
\* block anew, and the file holds that one block.
C12_Witness ==
  /\ alive /\ last.op = "start" /\ faults = 1
  /\ db # {}
  /\ Len(chain) = 1 /\ chain[1].timestamp # ClockStr(1)
  /\ load_blockchain(file) = chain

\* C13: an initialization that finds no durable file ends with a chain of
\* exactly one block whose previous_hash is "0" and whose records are empty;
\* an initialization that finds a non-empty durable chain takes that chain
\* and creates no block.
C13_Genesis ==
  [][(last'.op = "start" /\ alive' /\ Start) =>
       /\ ~file.exists =>
            /\ Len(chain') = 1
            /\ chain'[1].previous_hash = "0"
            /\ chain'[1].degrees = <<>>
            /\ pending_degrees' = <<>>
       /\ load_blockchain(file) # <<>> =>
            /\ chain' = load_blockchain(file)
            /\ file' = file]_vars

\* C13 witness: the first start, with no file, has made the genesis block.
C13_Witness ==
  /\ alive /\ last.op = "start" /\ faults = 0 /\ db = {}
  /\ Len(chain) = 1 /\ chain[1].timestamp = ClockStr(1)
  /\ chain[1].previous_hash = "0" /\ chain[1].degrees = <<>>

\* C14: in every step of a running instance other than an initialization,
\* the chain afterwards extends the chain before (up to the three
\* verification fields), every block's index is its 1-based position, a
\* seal adds exactly one block, at the end, with index the previous length
\* plus one, and every other operation adds none.
C14_AppendOnly ==
  [][(alive /\ alive' /\ last'.op # "start") =>
       /\ Extends(chain, chain')
       /\ \A i \in 1..Len(chain') : chain'[i].index = i
       /\ IF last'.op = "upload" /\ last'.ret
          THEN /\ Len(chain') = Len(chain) + 1
               /\ chain'[Len(chain')].index = Len(chain) + 1
          ELSE Len(chain') = Len(chain)]_vars

\* C14 witness: a seal has appended the third block to a chain that holds a
\* verified record.
C14_Witness ==
  /\ alive /\ last.op = "upload" /\ last.ret
  /\ Len(chain) = 3 /\ chain[3].index = 3
  /\ chain[3].degrees = <<last.rec>>
  /\ ~AllUnverified(chain[2])

\* C15: find_degree(id) returns the first record with that id in the
\* records of the blocks taken in scan order (blocks by position, records
\* of a block in the order submitted), returns None exactly when no record
\* of a block has the id, whatever the pending buffer holds, and changes no
\* state.
C15_FindFirst ==
  [][\A id \in RequestIds :
       (last'.op = "find" /\ FindDegree(id)) =>
         LET all == Records(chain)
             hits == {k \in 1..Len(all) : all[k].degree_id = id}
         IN /\ last'.ret <=> hits # {}
            /\ last'.ret =>
                 \E k \in hits : /\ last'.rec = all[k]
                                 /\ \A j \in hits : k <= j
            /\ UNCHANGED <<chain, pending_degrees, file, db>>]_vars

\* C15 witness: find_degree has found nothing for an id that only a record
\* of the pending buffer carries, on a chain where another id is carried by
\* two records of which find_degree returns the verified one.
C15_Witness ==
  /\ alive /\ last.op = "find" /\ ~last.ret
  /\ \E i \in 1..Len(pending_degrees) :
       /\ Matches(chain, pending_degrees[i].degree_id) = {}
       /\ \E id \in RequestIds \ {pending_degrees[i].degree_id} :
            /\ Cardinality(Matches(chain, id)) = 2
            /\ ~Unverified(find_degree(chain, id).degree)

\* C17: add_degree puts the record at the end of the pending buffer and
\* leaves the chain and the durable file as they were; the create_block
\* that follows makes a block whose records are the pending buffer, in
\* order, and leaves the pending buffer empty.
C17_SubmitFrame ==
  [][/\ \A sub \in Submissions :
          (last'.op = "add_degree" /\ AddDegree(sub)) =>
            /\ Len(pending_degrees') = Len(pending_degrees) + 1
            /\ pending_degrees'[Len(pending_degrees')] = DegreeData(sub)
            /\ SubSeq(pending_degrees', 1, Len(pending_degrees))
                 = pending_degrees
            /\ chain' = chain
            /\ file' = file
     /\ (last'.op = "create_block" /\ Seal) =>
          /\ Len(chain') = Len(chain) + 1
          /\ chain'[Len(chain')].degrees = pending_degrees
          /\ pending_degrees' = <<>>]_vars

\* C17 witness: a create_block has sealed two different records, in the
\* order they were added.
C17_Witness ==
  /\ alive /\ last.op = "create_block" /\ pending_degrees = <<>>
  /\ LET ds == chain[Len(chain)].degrees
     IN /\ Len(ds) = 2
        /\ ds[1].student_name = "Bob" /\ ds[2].student_name = "Alice"

\* C16: an upload in which student_name, degree_title or institution is
\* empty is refused and leaves the pending buffer, the chain and the durable
\* file as they were; and no record of a block, after any step, has one of
\* these fields empty.
C16_SubmitValidation ==
  [][/\ \A sub \in Submissions :
          (/\ last'.op = "upload"
           /\ sub.student_name = "" \/ sub.degree_title = ""
                \/ sub.institution = ""
           /\ Upload(sub)) =>
            /\ ~last'.ret
            /\ pending_degrees' = pending_degrees
            /\ chain' = chain
            /\ file' = file
            /\ db' = db
     /\ \A i \in 1..Len(chain') : \A j \in 1..Len(chain'[i].degrees) :
          /\ chain'[i].degrees[j].student_name # ""
          /\ chain'[i].degrees[j].degree_title # ""
          /\ chain'[i].degrees[j].institution # ""]_vars

\* C16 witness: an upload has been refused on a chain that holds records.
C16_Witness ==
  /\ alive /\ last.op = "upload" /\ ~last.ret
  /\ Len(chain) >= 2 /\ chain[2].degrees # <<>>
  /\ pending_degrees = <<>>

\* C18: while no persist has failed, every row of the cache has the status
\* and verified_by of the record that find_degree returns for its id.
C18_CacheSync ==
  (alive /\ faults = 0) =>
    \A row \in db :
      LET r == find_degree(chain, row.degree_id)
      IN /\ r.found
         /\ r.degree.status = row.status
         /\ r.degree.verified_by = row.verified_by

\* C19: the chain in the durable file holds a record for every row that an
\* upload of either session put into the cache, and a row that a
\* verification of either session set to Approved or Rejected has that
\* status in the record find_degree returns from the durable chain.
C19_NoLostUpdates ==
  \A row \in db :
    LET r == find_degree(load_blockchain(file), row.degree_id)
    IN /\ r.found
       /\ row.status # "Pending" => r.degree.status = row.status

\* C20: a successful verify leaves the number and order of blocks, every
\* block's index, timestamp, previous_hash and hash, the pending buffer, and
\* every record but the first one with the id (a later record with the same
\* id included) as they were; of that first record it leaves the six fields
\* other than status, verified_by and verification_date as they were.
C20_VerifyFrame ==
  [][\A id \in RequestIds, req \in VerifyRequests :
       (/\ last'.op = "verify" /\ last'.ret
        /\ Verify(id, req.action, req.verifier)) =>
         LET pos == FirstMatch(chain, id)
         IN /\ Len(chain') = Len(chain)
            /\ pending_degrees' = pending_degrees
            /\ \A i \in 1..Len(chain) :
                 /\ chain'[i].index = chain[i].index
                 /\ chain'[i].timestamp = chain[i].timestamp
                 /\ chain'[i].previous_hash = chain[i].previous_hash
                 /\ chain'[i].hash = chain[i].hash
                 /\ Len(chain'[i].degrees) = Len(chain[i].degrees)
                 /\ \A j \in 1..Len(chain[i].degrees) :
                      IF <<i, j>> = pos
                      THEN Core(chain'[i].degrees[j]) = Core(chain[i].degrees[j])
                      ELSE chain'[i].degrees[j] = chain[i].degrees[j]]_vars

\* C20 witness: a verify has succeeded on an id that two records carry; the
\* first is verified and the later one is still Pending.
C20_Witness ==
  /\ alive /\ last.op = "verify" /\ last.ret
  /\ Len(chain) = 3
  /\ chain[2].degrees # <<>> /\ chain[3].degrees # <<>>
  /\ chain[2].degrees[1].degree_id = last.rec.degree_id
  /\ chain[3].degrees[1].degree_id = last.rec.degree_id
  /\ ~Unverified(chain[2].degrees[1])
  /\ Unverified(chain[3].degrees[1])

\* the coupling of the three verification fields of a record
Coupled(d) ==
  /\ d.status \in {"Pending", "Approved", "Rejected"}
  /\ d.status = "Pending" <=>
       (d.verified_by.isNone /\ d.verification_date.isNone)
  /\ ~d.verified_by.isNone =>
       \E v \in verifiers : d.verified_by.s = v.name

AllCoupled(ch) ==
  \A i \in 1..Len(ch) : \A j \in 1..Len(ch[i].degrees) :
    Coupled(ch[i].degrees[j])

\* the record at the same place of ch1 and ch2, with the same id, is not
\* Pending in ch2 if it was not Pending in ch1
StaysVerified(ch1, ch2) ==
  \A i \in 1..Len(ch1) : \A j \in 1..Len(ch1[i].degrees) :
    (/\ i <= Len(ch2) /\ j <= Len(ch2[i].degrees)
     /\ ch2[i].degrees[j].degree_id = ch1[i].degrees[j].degree_id
     /\ ch1[i].degrees[j].status # "Pending") =>
       ch2[i].degrees[j].status # "Pending"

\* C21, as stated: after every step every record of the chain has its
\* status in {Pending, Approved, Rejected}, is Pending exactly when
\* verified_by and verification_date are both null and has a display name
\* of the registry as verified_by when that is set; and no step takes a
\* record of the chain that has left Pending back to Pending.
C21_CouplingNeverPending ==
  [][/\ AllCoupled(chain')
     /\ StaysVerified(chain, chain')]_vars

\* C21, amended: the same coupling after every step; and no step of a
\* running instance other than a new initialization takes a record that has
\* left Pending back to Pending.
C21_Coupling ==
  [][/\ AllCoupled(chain')
     /\ (alive /\ alive' /\ last'.op # "start") =>
          StaysVerified(chain, chain')]_vars

\* C21 witness: a record that was Rejected by IBCC has been verified again
\* and is Approved by HEC, with a later verification date.
C21_Witness ==
  /\ alive /\ last.op = "verify" /\ last.ret
  /\ last.rec.status = "Rejected"
  /\ LET d == find_degree(chain, last.rec.degree_id).degree
     IN /\ d.status = "Approved"
        /\ d.verified_by = Some(VerifierName("HEC"))
        /\ ~d.verification_date.isNone
        /\ Coupled(d)

====
